---- MODULE Spec2Model ----
(***************************************************************************)
(* cppclass::BinarySearchTree<T> (hw09.h) as a state machine over an       *)
(* explicit heap.  Node addresses are 1..MaxNodes, NULL is the null        *)
(* pointer.  `delete` moves an address from live to freed and leaves the   *)
(* block's bytes in place; `new` may hand out a never-used address or any  *)
(* freed one.  Reading or writing through a pointer to a freed block is    *)
(* undefined behaviour: the operation either crashes or goes on with what  *)
(* the block holds (its old bytes, or a new node once the block has been   *)
(* handed out again), and uaf records that it happened.  A descent that    *)
(* runs into a cycle of links never returns.                               *)
(***************************************************************************)
EXTENDS Integers, Sequences, FiniteSets, TLC

\* ---------------------------------------------------------------- bounds
MaxVal == 4          \* element values are 1..MaxVal
MaxNodes == 6        \* size of the address pool
MaxBulk == 6         \* SpecBulk: arrays arrange subsets of 1..MaxBulk
MaxVal2 == 2         \* SpecTwo: element values are 1..MaxVal2
MaxRemoves2 == 1     \* SpecTwo: remove calls that release a node, per run
MaxValEq == 3        \* SpecEq: element values are 1..MaxValEq
MaxValRep == 3       \* SpecRep: element values are 1..MaxValRep
MaxLenRep == 5       \* SpecRep: longest array handed to the bulk constructor
MaxLen == 3          \* longest array handed to the bulk constructor
MaxRemoves == 2      \* remove calls that release a node, per run

Values == 1..MaxVal
Node == 1..MaxNodes
NULL == 0
Trees == {1, 2}

VARIABLES
    heap,      \* address -> [data, left, right]: the bytes of every block
    live,      \* addresses allocated and not released
    freed,     \* addresses released and not handed out again
    m_root,    \* tree -> root pointer
    m_size,    \* tree -> size counter (size_t, kept as its signed residue)
    life,      \* tree -> "none" (not constructed) | "live" | "dead"
    ret,       \* what the last call returned
    uaf,       \* a freed block has been read or written
    dfree,     \* a block that was not live has been deleted
    status,    \* "running" | "crashed" | "hung" (a call that never returns: an
               \*   endless loop, or recursion until the stack is exhausted)
    nrem,      \* remove calls that have released a node
    hist       \* tree -> how the tree came about, kept while that is all that
               \*   happened to it: default construction and inserts (the values
               \*   passed and the number of true returns), or bulk construction
               \*   (the array passed); and, for good, which constructor made it

vars == <<heap, live, freed, m_root, m_size, life, ret, uaf, dfree, status, nrem,
          hist>>

\* ------------------------------------------------------------- the heap
Blank == [data |-> 0, left |-> NULL, right |-> NULL]

NewNode(val) == [data |-> val, left |-> NULL, right |-> NULL]

Unused(s) == Node \ (s.live \cup s.freed)

Min(S) == CHOOSE x \in S : \A y \in S : x <= y

\* the addresses operator new may return
AllocChoices(s) ==
    s.freed \cup (IF Unused(s) = {} THEN {} ELSE {Min(Unused(s))})

\* the allocator's choice under a policy, for the constructors that allocate
\* several nodes in one call
AllocPick(s, pol) ==
    IF pol = "reuse" /\ s.freed # {} THEN Min(s.freed)
    ELSE IF Unused(s) # {} THEN Min(Unused(s))
    ELSE IF s.freed # {} THEN Min(s.freed)
    ELSE NULL

\* a dereference of address n
Touch(s, n) == IF n \in s.freed THEN [s EXCEPT !.uaf = TRUE] ELSE s

TouchAll(s, P) == IF P \cap s.freed # {} THEN [s EXCEPT !.uaf = TRUE] ELSE s

\* delete n
Release(s, n) ==
    IF n \in s.live
    THEN [s EXCEPT !.live = @ \ {n}, !.freed = @ \cup {n}]
    ELSE [s EXCEPT !.dfree = TRUE]

\* the memory and one tree's fields, as the operations thread them
Mem(t) ==
    [heap |-> heap, live |-> live, freed |-> freed, uaf |-> FALSE,
     dfree |-> FALSE, halt |-> "no", root |-> m_root[t], size |-> m_size[t],
     ret |-> "void"]

Alloc(s, n, val) ==
    [s EXCEPT !.heap[n] = NewNode(val), !.live = @ \cup {n}, !.freed = @ \ {n}]

\* --------------------------------------------------------------- insert
\* the descent with an equal value sent to the left instead of stopping
RECURSIVE InsertWalk_DupLeft(_, _, _, _)
InsertWalk_DupLeft(h, current, value, fuel) ==
    IF current = NULL THEN [res |-> "end", at |-> NULL, path |-> {}]
    ELSE IF fuel = 0 THEN [res |-> "hang", at |-> NULL, path |-> {}]
    ELSE IF value > h[current].data THEN
        IF h[current].right = NULL
        THEN [res |-> "right", at |-> current, path |-> {current}]
        ELSE LET w == InsertWalk_DupLeft(h, h[current].right, value, fuel - 1)
             IN  [w EXCEPT !.path = @ \cup {current}]
    ELSE
        IF h[current].left = NULL
        THEN [res |-> "left", at |-> current, path |-> {current}]
        ELSE LET w == InsertWalk_DupLeft(h, h[current].left, value, fuel - 1)
             IN  [w EXCEPT !.path = @ \cup {current}]

\* the while loop of insert: where the descent ends
RECURSIVE InsertWalk(_, _, _, _)
InsertWalk(h, current, value, fuel) ==
    IF current = NULL THEN [res |-> "end", at |-> NULL, path |-> {}]
    ELSE IF fuel = 0 THEN [res |-> "hang", at |-> NULL, path |-> {}]
    ELSE IF value > h[current].data THEN
        IF h[current].right = NULL
        THEN [res |-> "right", at |-> current, path |-> {current}]
        ELSE LET w == InsertWalk(h, h[current].right, value, fuel - 1)
             IN  [w EXCEPT !.path = @ \cup {current}]
    ELSE IF value < h[current].data THEN
        IF h[current].left = NULL
        THEN [res |-> "left", at |-> current, path |-> {current}]
        ELSE LET w == InsertWalk(h, h[current].left, value, fuel - 1)
             IN  [w EXCEPT !.path = @ \cup {current}]
    ELSE [res |-> "dup", at |-> current, path |-> {current}]

\* insert with the size update of the left attachment left out
insert_LeftUncounted(s, value, n) ==
    IF s.size = 0 THEN
        IF n = NULL THEN [s EXCEPT !.halt = "oom"]
        ELSE [Alloc(s, n, value) EXCEPT !.root = n, !.size = @ + 1, !.ret = "true"]
    ELSE
        LET w  == InsertWalk(s.heap, s.root, value, MaxNodes)
            s1 == TouchAll(s, w.path)
        IN  CASE w.res = "hang" -> [s1 EXCEPT !.halt = "hang"]
              [] w.res \in {"dup", "end"} -> [s1 EXCEPT !.ret = "false"]
              [] w.res = "right" ->
                    IF n = NULL THEN [s1 EXCEPT !.halt = "oom"]
                    ELSE [Alloc(s1, n, value) EXCEPT !.heap[w.at].right = n,
                                                     !.size = @ + 1, !.ret = "true"]
              [] w.res = "left" ->
                    IF n = NULL THEN [s1 EXCEPT !.halt = "oom"]
                    ELSE [Alloc(s1, n, value) EXCEPT !.heap[w.at].left = n,
                                                     !.ret = "true"]

\* insert(value), with n the address operator new returns if it is called
insert(s, value, n) ==
    IF s.size = 0 THEN
        IF n = NULL THEN [s EXCEPT !.halt = "oom"]
        ELSE [Alloc(s, n, value) EXCEPT !.root = n, !.size = @ + 1, !.ret = "true"]
    ELSE
        LET w  == InsertWalk(s.heap, s.root, value, MaxNodes)
            s1 == TouchAll(s, w.path)
        IN  CASE w.res = "hang" -> [s1 EXCEPT !.halt = "hang"]
              [] w.res \in {"dup", "end"} -> [s1 EXCEPT !.ret = "false"]
              [] w.res = "right" ->
                    IF n = NULL THEN [s1 EXCEPT !.halt = "oom"]
                    ELSE [Alloc(s1, n, value) EXCEPT !.heap[w.at].right = n,
                                                     !.size = @ + 1, !.ret = "true"]
              [] w.res = "left" ->
                    IF n = NULL THEN [s1 EXCEPT !.halt = "oom"]
                    ELSE [Alloc(s1, n, value) EXCEPT !.heap[w.at].left = n,
                                                     !.size = @ + 1, !.ret = "true"]

\* ------------------------------------------------------------- contains
RECURSIVE ContainsWalk(_, _, _, _)
ContainsWalk(h, current, value, fuel) ==
    IF current = NULL THEN [res |-> "false", path |-> {}]
    ELSE IF fuel = 0 THEN [res |-> "hang", path |-> {}]
    ELSE IF h[current].data > value THEN
        LET w == ContainsWalk(h, h[current].left, value, fuel - 1)
        IN  [w EXCEPT !.path = @ \cup {current}]
    ELSE IF h[current].data < value THEN
        LET w == ContainsWalk(h, h[current].right, value, fuel - 1)
        IN  [w EXCEPT !.path = @ \cup {current}]
    ELSE [res |-> "true", path |-> {current}]

contains(s, value) ==
    LET w  == ContainsWalk(s.heap, s.root, value, MaxNodes)
        s1 == TouchAll(s, w.path)
    IN  IF w.res = "hang" THEN [s1 EXCEPT !.halt = "hang"]
        ELSE [s1 EXCEPT !.ret = w.res]

\* --------------------------------------------------------------- remove
\* the first loop of remove: locate the target
RECURSIVE RemoveFind(_, _, _, _)
RemoveFind(h, target, value, fuel) ==
    IF target = NULL THEN [res |-> "absent", target |-> NULL, path |-> {}]
    ELSE IF fuel = 0 THEN [res |-> "hang", target |-> NULL, path |-> {}]
    ELSE IF h[target].data > value THEN
        LET w == RemoveFind(h, h[target].left, value, fuel - 1)
        IN  [w EXCEPT !.path = @ \cup {target}]
    ELSE IF h[target].data < value THEN
        LET w == RemoveFind(h, h[target].right, value, fuel - 1)
        IN  [w EXCEPT !.path = @ \cup {target}]
    ELSE [res |-> "found", target |-> target, path |-> {target}]

\* while (current->left->left) current = current->left;
RECURSIVE LeftSpine(_, _, _)
LeftSpine(h, current, fuel) ==
    IF fuel = 0 THEN [hang |-> TRUE, cur |-> current, path |-> {}]
    ELSE IF h[h[current].left].left # NULL THEN
        LET w == LeftSpine(h, h[current].left, fuel - 1)
        IN  [w EXCEPT !.path = @ \cup {current, h[current].left}]
    ELSE [hang |-> FALSE, cur |-> current, path |-> {current, h[current].left}]

\* while (current->right->right) current = current->right;
RECURSIVE RightSpine(_, _, _)
RightSpine(h, current, fuel) ==
    IF fuel = 0 THEN [hang |-> TRUE, cur |-> current, path |-> {}]
    ELSE IF h[h[current].right].right # NULL THEN
        LET w == RightSpine(h, h[current].right, fuel - 1)
        IN  [w EXCEPT !.path = @ \cup {current, h[current].right}]
    ELSE [hang |-> FALSE, cur |-> current, path |-> {current, h[current].right}]

\* the branch of remove for a target with a right child
RemoveRight(s, target) ==
    LET current == s.heap[target].right
        sc == Touch(s, current)
    IN  IF sc.heap[current].left = NULL THEN
            LET s2 == [sc EXCEPT !.heap[target].data = sc.heap[current].data]
                s3 == [s2 EXCEPT !.heap[target].right = s2.heap[current].right]
            IN  [Release(s3, current) EXCEPT !.size = @ - 1, !.ret = "true"]
        ELSE
            LET sp == LeftSpine(sc.heap, current, MaxNodes)
                s1 == TouchAll(sc, sp.path)
            IN  IF sp.hang THEN [s1 EXCEPT !.halt = "hang"]
                ELSE
                    LET cur == sp.cur
                        s2  == [s1 EXCEPT !.heap[target].data =
                                              s1.heap[s1.heap[cur].left].data]
                        gone == s2.heap[cur].left
                    IN  IF s2.heap[gone].right # NULL THEN
                            LET tmp == s2.heap[gone].right
                                s3  == [Release(s2, gone) EXCEPT !.size = @ - 1]
                            IN  [Touch(s3, cur) EXCEPT !.heap[cur].left = tmp,
                                                       !.ret = "true"]
                        ELSE [Release(s2, gone) EXCEPT !.size = @ - 1, !.ret = "true"]

\* the branch of remove for a target with a left child and no right child
RemoveLeft(s, target) ==
    LET current == s.heap[target].left
        sc == Touch(s, current)
    IN  IF sc.heap[current].right = NULL THEN
            LET s2 == [sc EXCEPT !.heap[target].data = sc.heap[current].data]
                s3 == [s2 EXCEPT !.heap[target].left = s2.heap[current].left]
            IN  [Release(s3, current) EXCEPT !.size = @ - 1, !.ret = "true"]
        ELSE
            LET sp == RightSpine(sc.heap, current, MaxNodes)
                s1 == TouchAll(sc, sp.path)
            IN  IF sp.hang THEN [s1 EXCEPT !.halt = "hang"]
                ELSE
                    LET cur == sp.cur
                        s2  == [s1 EXCEPT !.heap[target].data =
                                              s1.heap[s1.heap[cur].right].data]
                        gone == s2.heap[cur].right
                    IN  IF s2.heap[gone].left # NULL THEN
                            LET tmp == s2.heap[gone].left
                                s3  == [Release(s2, gone) EXCEPT !.size = @ - 1]
                            IN  [Touch(s3, cur) EXCEPT !.heap[cur].right = tmp,
                                                       !.ret = "true"]
                        ELSE [Release(s2, gone) EXCEPT !.size = @ - 1, !.ret = "true"]

\* the branch of remove for a target with no child
RemoveLeaf(s, target) ==
    [Release(s, target) EXCEPT !.size = @ - 1, !.ret = "true"]

remove(s, value) ==
    LET f  == RemoveFind(s.heap, s.root, value, MaxNodes)
        s1 == TouchAll(s, f.path)
    IN  IF f.res = "hang" THEN [s1 EXCEPT !.halt = "hang"]
        ELSE IF f.res = "absent" THEN [s1 EXCEPT !.ret = "false"]
        ELSE IF s1.heap[f.target].right # NULL THEN RemoveRight(s1, f.target)
        ELSE IF s1.heap[f.target].left # NULL THEN RemoveLeft(s1, f.target)
        ELSE RemoveLeaf(s1, f.target)

size(s) == s.size

\* the nodes reachable from n by left/right links
RECURSIVE ReachSetFrom(_, _, _)
ReachSetFrom(h, n, seen) ==
    IF n = NULL \/ n \in seen THEN seen
    ELSE ReachSetFrom(h, h[n].right, ReachSetFrom(h, h[n].left, seen \cup {n}))

ReachSet(h, root) == ReachSetFrom(h, root, {})

\* ----------------------------------------------------------- operator==
RECURSIVE prefix_comp(_, _, _, _)
prefix_comp(h, self_curr, other_curr, fuel) ==
    IF self_curr = NULL /\ other_curr = NULL THEN [res |-> "true", path |-> {}]
    ELSE IF self_curr = NULL \/ other_curr = NULL THEN [res |-> "false", path |-> {}]
    ELSE IF fuel = 0 THEN [res |-> "hang", path |-> {}]
    ELSE IF h[self_curr].data # h[other_curr].data
    THEN [res |-> "false", path |-> {self_curr, other_curr}]
    ELSE
        LET l == prefix_comp(h, h[self_curr].left, h[other_curr].left, fuel - 1)
        IN  IF l.res # "true"
            THEN [l EXCEPT !.path = @ \cup {self_curr, other_curr}]
            ELSE LET r == prefix_comp(h, h[self_curr].right, h[other_curr].right,
                                      fuel - 1)
                 IN  [r EXCEPT !.path = @ \cup l.path \cup {self_curr, other_curr}]

equals_ByValues(s, other_root) ==
    LET c == prefix_comp(s.heap, s.root, other_root, MaxNodes)
        same == {s.heap[n].data : n \in ReachSet(s.heap, s.root)} =
                {s.heap[n].data : n \in ReachSet(s.heap, other_root)}
    IN  [TouchAll(s, c.path) EXCEPT !.ret = IF same THEN "true" ELSE "false"]

equals(s, other_root) ==
    LET c  == prefix_comp(s.heap, s.root, other_root, MaxNodes)
        s1 == TouchAll(s, c.path)
    IN  IF c.res = "hang" THEN [s1 EXCEPT !.halt = "hang"]
        ELSE [s1 EXCEPT !.ret = c.res]

not_equals(s, other_root) ==
    LET e == equals(s, other_root)
    IN  IF e.halt # "no" THEN e
        ELSE [e EXCEPT !.ret = IF e.ret = "true" THEN "false" ELSE "true"]

\* ------------------------------------------------- recursive helpers
RECURSIVE postfix_del(_, _, _)
postfix_del(s, current, fuel) ==
    IF current = NULL \/ s.halt # "no" THEN s
    ELSE IF fuel = 0 THEN [s EXCEPT !.halt = "hang"]
    ELSE
        LET s0 == Touch(s, current)
            s1 == postfix_del(s0, s0.heap[current].left, fuel - 1)
            s2 == postfix_del(Touch(s1, current), s1.heap[current].right, fuel - 1)
        IN  IF s2.halt # "no" THEN s2 ELSE Release(s2, current)

RECURSIVE prefix_insert_InOrder(_, _, _, _)
prefix_insert_InOrder(s, current, pol, fuel) ==
    IF current = NULL \/ s.halt # "no" THEN s
    ELSE IF fuel = 0 THEN [s EXCEPT !.halt = "hang"]
    ELSE
        LET s0 == prefix_insert_InOrder(Touch(s, current), s.heap[current].left, pol,
                                        fuel - 1)
            s1 == insert(s0, s0.heap[current].data, AllocPick(s0, pol))
        IN  IF s0.halt # "no" THEN s0
            ELSE prefix_insert_InOrder(Touch(s1, current), s1.heap[current].right, pol,
                                       fuel - 1)

RECURSIVE prefix_insert(_, _, _, _)
prefix_insert(s, current, pol, fuel) ==
    IF current = NULL \/ s.halt # "no" THEN s
    ELSE IF fuel = 0 THEN [s EXCEPT !.halt = "hang"]
    ELSE
        LET s0 == Touch(s, current)
            s1 == insert(s0, s0.heap[current].data, AllocPick(s0, pol))
            s2 == prefix_insert(Touch(s1, current), s1.heap[current].left, pol,
                                fuel - 1)
        IN  IF s2.halt # "no" THEN s2
            ELSE prefix_insert(Touch(s2, current), s2.heap[current].right, pol,
                               fuel - 1)

\* arr is the sorted vector; C++ index i is arr[i + 1]
RECURSIVE bisection_insert(_, _, _, _, _)
bisection_insert(s, arr, lower, upper, pol) ==
    IF lower >= upper \/ s.halt # "no" THEN s
    ELSE
        LET midpoint == (lower + upper) \div 2
            s1 == insert(s, arr[midpoint + 1], AllocPick(s, pol))
            s2 == bisection_insert(s1, arr, lower, midpoint, pol)
        IN  bisection_insert(s2, arr, midpoint + 1, upper, pol)

\* std::sort: the ascending arrangement of the same elements
RECURSIVE SortInto(_, _)
SortInto(x, sorted) ==
    IF sorted = <<>> THEN <<x>>
    ELSE IF x <= Head(sorted) THEN <<x>> \o sorted
    ELSE <<Head(sorted)>> \o SortInto(x, Tail(sorted))

RECURSIVE Sort(_)
Sort(arr) == IF arr = <<>> THEN <<>> ELSE SortInto(Head(arr), Sort(Tail(arr)))

\* ------------------------------------------------------- constructors
Empty(s) == [s EXCEPT !.root = NULL, !.size = 0]

\* the bulk constructor with the std::sort call left out
BulkCtor_Unsorted(s, arr, pol) ==
    [bisection_insert(Empty(s), arr, 0, Len(arr), pol) EXCEPT !.ret = "void"]

BulkCtor(s, arr, pol) ==
    LET local_arr == Sort(arr)
    IN  [bisection_insert(Empty(s), local_arr, 0, Len(arr), pol) EXCEPT !.ret = "void"]

CopyCtor(s, other_root, pol) ==
    [prefix_insert(Empty(s), other_root, pol, MaxNodes) EXCEPT !.ret = "void"]

Dtor(s) == [postfix_del(s, s.root, MaxNodes) EXCEPT !.ret = "void"]

\* ---------------------------------------------------------- the machine
NoHist == [kind |-> "other", vals |-> {}, trues |-> 0, arr |-> <<>>, origin |-> "none"]
NewHist == [NoHist EXCEPT !.kind = "inserts", !.origin = "default"]
BulkHist(arr) == [NoHist EXCEPT !.kind = "bulk", !.arr = arr, !.origin = "bulk"]
\* a copy remembers whether its source had only been inserted into
CopyHist(src) ==
    [NoHist EXCEPT !.origin = IF src.kind = "inserts" THEN "copy" ELSE "copy-other"]
MoveHist == [NoHist EXCEPT !.kind = "moved", !.origin = "move"]
Forget(hh) == [NoHist EXCEPT !.origin = hh.origin]

Init ==
    /\ heap = [n \in Node |-> Blank]
    /\ live = {}
    /\ freed = {}
    /\ m_root = [t \in Trees |-> NULL]
    /\ m_size = [t \in Trees |-> 0]
    /\ life = [t \in Trees |-> "none"]
    /\ ret = "void"
    /\ uaf = FALSE
    /\ dfree = FALSE
    /\ status = "running"
    /\ nrem = 0
    /\ hist = [t \in Trees |-> NoHist]

\* the call on tree t ran to s; it either takes effect, or, when it touched
\* freed memory, may bring the process down instead
Commit(t, s, newlife, newhist) ==
    /\ s.halt # "oom"
    /\ \/ /\ heap' = s.heap
          /\ live' = s.live
          /\ freed' = s.freed
          /\ m_root' = [m_root EXCEPT ![t] = s.root]
          /\ m_size' = [m_size EXCEPT ![t] = s.size]
          /\ life' = newlife
          /\ hist' = newhist
          /\ uaf' = (uaf \/ s.uaf)
          /\ dfree' = (dfree \/ s.dfree)
          /\ ret' = IF s.halt = "hang" THEN "hang" ELSE s.ret
          /\ status' = IF s.halt = "hang" THEN "hung" ELSE "running"
       \/ /\ s.uaf \/ s.dfree
          /\ uaf' = (uaf \/ s.uaf)
          /\ dfree' = (dfree \/ s.dfree)
          /\ ret' = "crash"
          /\ status' = "crashed"
          /\ UNCHANGED <<heap, live, freed, m_root, m_size, life, hist>>

CanConstruct(t) ==
    /\ UNCHANGED nrem
    /\ status = "running"
    /\ life[t] = "none"
    /\ \A u \in Trees : u < t => life[u] # "none"

Usable(t) == status = "running" /\ life[t] = "live"

\* BinarySearchTree()
Construct(t) ==
    /\ UNCHANGED nrem
    /\ CanConstruct(t)
    /\ Commit(t, Empty(Mem(t)), [life EXCEPT ![t] = "live"],
              [hist EXCEPT ![t] = NewHist])

\* BinarySearchTree(const T *arr, size_t size)
BulkConstruct(t, arr, pol) ==
    /\ UNCHANGED nrem
    /\ CanConstruct(t)
    /\ Commit(t, BulkCtor(Mem(t), arr, pol), [life EXCEPT ![t] = "live"],
              [hist EXCEPT ![t] = BulkHist(arr)])

\* BinarySearchTree(const BinarySearchTree& other)
CopyConstruct(t, other, pol) ==
    /\ UNCHANGED nrem
    /\ CanConstruct(t)
    /\ life[other] = "live"
    /\ Commit(t, CopyCtor(Mem(t), m_root[other], pol),
              [life EXCEPT ![t] = "live"], [hist EXCEPT ![t] = CopyHist(hist[other])])

\* BinarySearchTree(BinarySearchTree&& other)
MoveConstruct(t, other) ==
    /\ CanConstruct(t)
    /\ life[other] = "live"
    /\ m_root' = [m_root EXCEPT ![t] = m_root[other], ![other] = NULL]
    /\ m_size' = [m_size EXCEPT ![t] = m_size[other], ![other] = 0]
    /\ life' = [life EXCEPT ![t] = "live"]
    /\ hist' = [hist EXCEPT ![t] = MoveHist, ![other] = Forget(@)]
    /\ ret' = "void"
    /\ UNCHANGED <<heap, live, freed, uaf, dfree, status, nrem>>

\* ~BinarySearchTree()
Destroy(t) ==
    /\ UNCHANGED nrem
    /\ Usable(t)
    /\ Commit(t, Empty(Dtor(Mem(t))), [life EXCEPT ![t] = "dead"],
              [hist EXCEPT ![t] = Forget(@)])

Insert(t, value, n) ==
    /\ UNCHANGED nrem
    /\ Usable(t)
    /\ LET s == insert(Mem(t), value, n)
       IN  Commit(t, s, life,
                  IF hist[t].kind = "inserts"
                  THEN [hist EXCEPT ![t].vals = @ \cup {value},
                                    ![t].trues = @ + (IF s.ret = "true" THEN 1 ELSE 0)]
                  ELSE [hist EXCEPT ![t] = Forget(@)])

Remove(t, value) ==
    /\ Usable(t)
    /\ nrem < MaxRemoves
    /\ LET s == remove(Mem(t), value)
       IN  /\ Commit(t, s, life, [hist EXCEPT ![t] = Forget(@)])
           /\ nrem' = IF s.ret = "true" THEN nrem + 1 ELSE nrem

Contains(t, value) ==
    /\ UNCHANGED nrem
    /\ Usable(t)
    /\ Commit(t, contains(Mem(t), value), life, hist)

Equals(t, other) ==
    /\ UNCHANGED nrem
    /\ Usable(t)
    /\ life[other] = "live"
    /\ Commit(t, equals(Mem(t), m_root[other]), life, hist)

NotEquals(t, other) ==
    /\ UNCHANGED nrem
    /\ UNCHANGED nrem
    /\ Usable(t)
    /\ life[other] = "live"
    /\ Commit(t, not_equals(Mem(t), m_root[other]), life, hist)

Policies == {"fresh", "reuse"}

\* every arrangement of every subset of S, as a sequence
RECURSIVE Arrangements(_)
Arrangements(S) ==
    {<<>>} \cup UNION {{<<x>> \o a : a \in Arrangements(S \ {x})} : x \in S}

\* arrays of at most MaxLen values, repeats allowed
Arrays == UNION {[1..k -> Values] : k \in 0..MaxLen}

\* arrays without repeats over 1..MaxBulk
BulkArrays == Arrangements(1..MaxBulk)

NewChoices(t) ==
    IF AllocChoices(Mem(t)) = {} THEN {NULL} ELSE AllocChoices(Mem(t))

\* one tree: construction, insert, remove, contains, teardown
Next ==
    \/ Construct(1)
    \/ CanConstruct(1) /\ \E arr \in Arrays, pol \in Policies : BulkConstruct(1, arr, pol)
    \/ Destroy(1)
    \/ \E v \in Values, n \in NewChoices(1) : Insert(1, v, n)
    \/ \E v \in Values : Remove(1, v)
    \/ \E v \in Values : Contains(1, v)

Spec == Init /\ [][Next]_vars

\* one tree that is only inserted into
NextIns ==
    \/ Construct(1)
    \/ \E v \in Values, n \in NewChoices(1) : Insert(1, v, n)
    \/ \E v \in Values : Contains(1, v)

SpecIns == Init /\ [][NextIns]_vars

\* bulk construction from arrays without repeats
NextBulk ==
    \/ CanConstruct(1) /\ \E arr \in BulkArrays, pol \in Policies :
                               BulkConstruct(1, arr, pol)
    \/ \E v \in 1..MaxBulk : Contains(1, v)
    \/ Destroy(1)

SpecBulk == Init /\ [][NextBulk]_vars

\* two trees over 1..MaxVal2: copy, move, comparison, and calls on both, with
\* at most MaxRemoves2 remove calls that release a node
NextTwo ==
    \/ \E t \in Trees : Construct(t)
    \/ \E t, o \in Trees, pol \in Policies : CopyConstruct(t, o, pol)
    \/ \E t, o \in Trees : MoveConstruct(t, o)
    \/ \E t \in Trees : Destroy(t)
    \/ \E t \in Trees, v \in 1..MaxVal2 : \E n \in NewChoices(t) : Insert(t, v, n)
    \/ nrem < MaxRemoves2 /\ \E t \in Trees, v \in 1..MaxVal2 : Remove(t, v)
    \/ \E t \in Trees, v \in 1..MaxVal2 : Contains(t, v)
    \/ \E t, o \in Trees : Equals(t, o)
    \/ \E t, o \in Trees : NotEquals(t, o)

SpecTwo == Init /\ [][NextTwo]_vars

\* two trees over 1..MaxValEq that are only constructed, copied, inserted
\* into and compared; tree 1 is filled before tree 2 is constructed
NextEq ==
    \/ \E t \in Trees : Construct(t)
    \/ \E pol \in Policies : CopyConstruct(2, 1, pol)
    \/ life[2] = "none" /\ \E v \in 1..MaxValEq, n \in NewChoices(1) : Insert(1, v, n)
    \/ \E v \in 1..MaxValEq, n \in NewChoices(2) : Insert(2, v, n)
    \/ \E t, o \in Trees : Equals(t, o)
    \/ \E t, o \in Trees : NotEquals(t, o)

SpecEq == Init /\ [][NextEq]_vars

\* arrays of at most MaxLenRep values from 1..MaxValRep, repeats allowed
RepArrays == UNION {[1..k -> 1..MaxValRep] : k \in 0..MaxLenRep}

\* one tree built by the bulk constructor from an array that may repeat
\* values, then queried and torn down
NextRep ==
    \/ CanConstruct(1) /\ \E arr \in RepArrays, pol \in Policies : BulkConstruct(1, arr, pol)
    \/ \E v \in 1..MaxValRep : Contains(1, v)
    \/ Destroy(1)

SpecRep == Init /\ [][NextRep]_vars

\* ------------------------------------------------------- observations
\* the nodes reachable from root by left/right links
RECURSIVE ReachFrom(_, _, _)
ReachFrom(h, frontier, seen) ==
    IF frontier = {} THEN seen
    ELSE LET next == ({h[n].left : n \in frontier} \cup {h[n].right : n \in frontier})
                       \ ({NULL} \cup seen \cup frontier)
         IN  ReachFrom(h, next, seen \cup frontier)

Reach(h, root) == IF root = NULL THEN {} ELSE ReachFrom(h, {root}, {})

\* BST ordering, and no value held by two reachable nodes
Ordered(h, root) ==
    LET R == Reach(h, root)
    IN  \A n \in R :
            /\ \A m \in Reach(h, h[n].left) : h[m].data < h[n].data
            /\ \A m \in Reach(h, h[n].right) : h[m].data > h[n].data
            /\ \A m \in R \ {n} : h[m].data # h[n].data

\* what contains(value) returns on the tree rooted at root
ContainsRes(h, root, value) == ContainsWalk(h, root, value, MaxNodes).res

\* value is held by an allocated node of the tree rooted at root
PresentIn(h, lv, root, value) ==
    \E n \in Reach(h, root) \cap lv : h[n].data = value

Present(t, value) == PresentIn(heap, live, m_root[t], value)

\* no link of the tree leads to a released node, and the ordering holds
WellFormed(t) ==
    /\ Reach(heap, m_root[t]) \subseteq live
    /\ Ordered(heap, m_root[t])
    /\ m_size[t] = Cardinality(Reach(heap, m_root[t]))

Returned == status' = "running"

\* the number of nodes on the longest path from n down to a leaf
RECURSIVE HeightFrom(_, _, _)
HeightFrom(h, n, fuel) ==
    IF n = NULL \/ fuel = 0 THEN 0
    ELSE LET l == HeightFrom(h, h[n].left, fuel - 1)
             r == HeightFrom(h, h[n].right, fuel - 1)
         IN  1 + (IF l >= r THEN l ELSE r)

Height(h, root) == HeightFrom(h, root, MaxNodes)

\* ceil(log2(n + 1)): the least k with 2^k >= n + 1
MinHeight(n) == CHOOSE k \in 0..n : 2^k >= n + 1 /\ \A j \in 0..(k - 1) : 2^j < n + 1

Elems(arr) == {arr[i] : i \in 1..Len(arr)}

NoRepeats(arr) == Cardinality(Elems(arr)) = Len(arr)

\* the node remove(value) settles on
TargetOf(t, value) == RemoveFind(heap, m_root[t], value, MaxNodes).target

\* ---------------------------------------------------------------- claims
\* C1: removing a value that is present returns true, decreases size() by
\* one, and afterwards contains(value) is false and no node reachable from
\* the root holds the value; in each of the three deletion cases.
C1_RemovePresent ==
    [][\A v \in Values :
          (Remove(1, v) /\ Present(1, v) /\ Returned) =>
              /\ ret' = "true"
              /\ m_size'[1] = m_size[1] - 1
              /\ ContainsRes(heap', m_root'[1], v) = "false"
              /\ \A n \in Reach(heap', m_root'[1]) : heap'[n].data # v]_vars

\* C2: in every state reached by insert and remove calls the tree satisfies
\* BST ordering and no value is held by two reachable nodes.
C2_OrderingInvariant == life[1] = "live" => Ordered(heap, m_root[1])

\* C3: in every reachable state m_size equals the number of nodes reachable
\* from the root by left/right links.
C3_SizeCountsNodes ==
    life[1] = "live" => m_size[1] = Cardinality(Reach(heap, m_root[1]))

\* C4: insert(v) returns true exactly when v was not present; on true the
\* size grows by one and v is contained; on false nothing changes and no
\* node is allocated.
C4_InsertContract ==
    [][\A v \in Values : \A n \in Node \cup {NULL} :
          (Insert(1, v, n) /\ Returned) =>
              /\ (ret' = "true") <=> ~Present(1, v)
              /\ ret' = "true" =>
                    /\ m_size'[1] = m_size[1] + 1
                    /\ ContainsRes(heap', m_root'[1], v) = "true"
              /\ ret' = "false" => UNCHANGED <<heap, live, freed, m_root, m_size>>]_vars

\* C5: a tree that was default-constructed and only inserted into contains
\* exactly the values passed to insert, and size() is the number of insert
\* calls that returned true.
C5_SetUnderInsertion ==
    (life[1] = "live" /\ hist[1].kind = "inserts") =>
        /\ \A v \in Values :
              ContainsRes(heap, m_root[1], v) = (IF v \in hist[1].vals THEN "true" ELSE "false")
        /\ size(Mem(1)) = hist[1].trues

\* three values went in, in an order that gives the root two children, and a
\* fourth insert call was turned down
C5_Witness ==
    /\ hist[1].kind = "inserts"
    /\ hist[1].trues = 3
    /\ ret = "false"
    /\ m_root[1] # NULL
    /\ heap[m_root[1]].left # NULL
    /\ heap[m_root[1]].right # NULL
    /\ ContainsRes(heap, m_root[1], 3) = "true"

\* C9: a tree bulk-constructed from an array of n values without repeats, in
\* whatever order, contains exactly those values, has size n, is BST-ordered,
\* has at its root the value with exactly floor(n/2) smaller values in the
\* array, and has height ceil(log2(n + 1)).
C9_BulkBalanced ==
    (life[1] = "live" /\ hist[1].kind = "bulk" /\ NoRepeats(hist[1].arr)) =>
        LET arr == hist[1].arr
            n   == Len(arr)
        IN  /\ \A v \in 1..(MaxBulk + MaxVal) :
                  ContainsRes(heap, m_root[1], v) =
                      (IF v \in Elems(arr) THEN "true" ELSE "false")
            /\ size(Mem(1)) = n
            /\ Ordered(heap, m_root[1])
            /\ Cardinality(Reach(heap, m_root[1])) = n
            /\ n > 0 =>
                  /\ heap[m_root[1]].data \in Elems(arr)
                  /\ Cardinality({y \in Elems(arr) : y < heap[m_root[1]].data}) = n \div 2
            /\ Height(heap, m_root[1]) = MinHeight(n)

\* a tree bulk-constructed from six values given in descending order: the
\* root is 4 and the height is 3
C9_Witness ==
    /\ life[1] = "live"
    /\ hist[1].kind = "bulk"
    /\ hist[1].arr = <<6, 5, 4, 3, 2, 1>>
    /\ heap[m_root[1]].data = 4
    /\ Height(heap, m_root[1]) = 3

\* C6: removing a value that is not present returns false and leaves root,
\* nodes, links, size counter and the set of released nodes as they were.
C6_RemoveAbsent ==
    [][\A v \in Values :
          (Remove(1, v) /\ ~Present(1, v) /\ Returned) =>
              /\ ret' = "false"
              /\ UNCHANGED <<heap, live, freed, m_root, m_size>>]_vars

\* C7: teardown after any insert and remove calls leaves no node released
\* twice, no released node dereferenced and no allocated node unreleased;
\* teardown of an empty tree releases nothing.
C7_ReleasedExactlyOnce ==
    [][(Destroy(1) /\ Returned) =>
          /\ ~dfree'
          /\ ~uaf'
          /\ live' = {}
          /\ m_root[1] = NULL => UNCHANGED <<live, freed>>]_vars

\* C8: removing a present value whose node has two children leaves the
\* membership of every other value as it was and the tree BST-ordered
\* (stated for trees that are well formed before the call).
C8_TwoChildrenFrame ==
    [][\A v \in Values :
          (/\ Remove(1, v) /\ Present(1, v) /\ Returned
           /\ WellFormed(1)
           /\ heap[TargetOf(1, v)].left # NULL
           /\ heap[TargetOf(1, v)].right # NULL) =>
              /\ \A w \in Values \ {v} :
                    ContainsRes(heap', m_root'[1], w) = ContainsRes(heap, m_root[1], w)
              /\ Ordered(heap', m_root'[1])]_vars

\* the tree rooted at m_root[u] is after the step what it was before it
TreeUntouched(u) ==
    /\ m_root'[u] = m_root[u]
    /\ m_size'[u] = m_size[u]
    /\ \A n \in Reach(heap, m_root[u]) : heap'[n] = heap[n] /\ (n \in live => n \in live')

\* what copy construction of tree 2 from tree 1 leaves behind
CopyPost ==
    /\ Reach(heap', m_root'[2]) \cap Reach(heap', m_root'[1]) = {}
    /\ Reach(heap', m_root'[2]) \subseteq live' \ live
    /\ m_size'[2] = m_size[1]
    /\ \A v \in Values :
          ContainsRes(heap', m_root'[2], v) = ContainsRes(heap, m_root[1], v)
    /\ TreeUntouched(1)

\* the step is an insert or remove call on tree t that returns
CallOn(t) ==
    /\ Returned
    /\ \E v \in 1..MaxVal2 :
          \/ Remove(t, v)
          \/ \E n \in Node \cup {NULL} : Insert(t, v, n)

\* C10 (copy construction itself): the copy of a tree built by inserts has
\* nodes of its own, the source's size and the source's contains results,
\* and the source is as it was.
C10_CopyAgrees ==
    [][\A pol \in Policies :
          (CopyConstruct(2, 1, pol) /\ hist[1].kind = "inserts" /\ Returned) =>
              CopyPost]_vars

\* C10: copy construction from a tree built by inserts gives a tree with
\* nodes of its own, the same size and the same contains results, leaves the
\* source unchanged, and afterwards insert and remove calls on either of
\* the two trees do not change the other.
C10_CopyIndependent ==
    [][/\ \A pol \in Policies :
             (CopyConstruct(2, 1, pol) /\ hist[1].kind = "inserts" /\ Returned) =>
                 CopyPost
       /\ (hist[2].origin = "copy" /\ life[1] = "live" /\ life[2] = "live") =>
             /\ CallOn(2) => TreeUntouched(1)
             /\ CallOn(1) => TreeUntouched(2)]_vars

\* what move construction of tree 2 from tree 1 leaves behind
MovePost ==
    /\ m_root'[2] = m_root[1]
    /\ m_size'[2] = m_size[1]
    /\ \A v \in Values :
          ContainsRes(heap', m_root'[2], v) = ContainsRes(heap, m_root[1], v)
    /\ m_root'[1] = NULL
    /\ m_size'[1] = 0
    /\ \A v \in Values : ContainsRes(heap', m_root'[1], v) = "false"
    /\ UNCHANGED <<heap, live, freed>>

\* C11 (the move itself): the new tree has the source's root, size and
\* contents, the source is empty, and no node is allocated, released or
\* modified.
C11_MoveTransfers == [][MoveConstruct(2, 1) => MovePost]_vars

\* C11: move construction hands root, size and contents to the new tree,
\* leaves the source empty with contains false for every value, allocates,
\* releases and modifies no node, and tearing down both trees afterwards
\* releases each node exactly once.
C11_MoveThenTeardown ==
    [][/\ MoveConstruct(2, 1) => MovePost
       /\ (Destroy(2) /\ Returned /\ hist[2].kind = "moved" /\ ~uaf /\ ~dfree) =>
             /\ ~dfree'
             /\ ~uaf'
             /\ Reach(heap, m_root[2]) \cap live' = {}
       /\ (Destroy(1) /\ Returned /\ hist[2].origin = "move" /\ m_root[1] = NULL) =>
             UNCHANGED <<live, freed, uaf, dfree>>]_vars

\* the positions of the tree under n, each with the value stored there; a
\* position is the sequence of left/right turns that leads to it
RECURSIVE ShapeFrom(_, _, _, _)
ShapeFrom(h, n, turns, fuel) ==
    IF n = NULL \/ fuel = 0 THEN {}
    ELSE {<<turns, h[n].data>>}
         \cup ShapeFrom(h, h[n].left, Append(turns, "L"), fuel - 1)
         \cup ShapeFrom(h, h[n].right, Append(turns, "R"), fuel - 1)

Shape(t) == ShapeFrom(heap, m_root[t], <<>>, MaxNodes + 1)

ValuesOf(t) == {heap[n].data : n \in Reach(heap, m_root[t])}

\* C12: a == b is true exactly when the two trees have the same shape with
\* the same value at every position (so two trees with the same values in
\* different shapes are unequal), and a != b is the negation of a == b.
C12_ShapeEquality ==
    [][\A t \in Trees : \A o \in Trees :
          /\ (Equals(t, o) /\ Returned) => ((ret' = "true") <=> Shape(t) = Shape(o))
          /\ (Equals(t, o) /\ Returned) => ret' \in {"true", "false"}
          /\ (NotEquals(t, o) /\ Returned) =>
                ((ret' = "true") <=> Shape(t) # Shape(o))
          /\ (NotEquals(t, o) /\ Returned) => ret' \in {"true", "false"}]_vars

\* two live trees with the same values in different shapes, after a
\* comparison answered false
C12_Witness ==
    /\ life = <<"live", "live">>
    /\ status = "running"
    /\ Reach(heap, m_root[1]) \cup Reach(heap, m_root[2]) \subseteq live
    /\ m_size[1] >= 2
    /\ ValuesOf(1) = ValuesOf(2)
    /\ Shape(1) # Shape(2)
    /\ ret = "false"

\* after the step neither the root pointer of tree t nor a link of a node
\* reachable from it refers to node x
Unlinked(t, x) ==
    /\ m_root'[t] # x
    /\ \A n \in Reach(heap', m_root'[t]) : heap'[n].left # x /\ heap'[n].right # x

\* C13: removing a value held by a leaf releases the leaf and leaves
\* neither the root pointer nor any link of a reachable node referring to
\* it (stated for trees that are well formed before the call).
C13_LeafUnlinked ==
    [][\A v \in Values :
          (/\ Remove(1, v) /\ Present(1, v) /\ Returned
           /\ WellFormed(1)
           /\ heap[TargetOf(1, v)].left = NULL
           /\ heap[TargetOf(1, v)].right = NULL) =>
              /\ TargetOf(1, v) \notin live'
              /\ Unlinked(1, TargetOf(1, v))]_vars

\* the values held under node n
Under(n) == {heap[m].data : m \in Reach(heap, n)}

\* the node under n that holds value x
Holder(n, x) == CHOOSE m \in Reach(heap, n) : heap[m].data = x

Max(S) == CHOOSE x \in S : \A y \in S : x >= y

\* C15: removing a value whose node has a left child and no right child
\* keeps the node in place holding the greatest value of its former left
\* subtree, releases the node that held that value and leaves no reachable
\* link referring to it: the link that led to it refers to its left child,
\* or to nothing if it had none; whether it was the left child itself or
\* deeper on the right spine (stated for trees that are well formed before
\* the call).
C15_PredecessorSpliced ==
    [][\A v \in Values :
          (/\ Remove(1, v) /\ Present(1, v) /\ Returned
           /\ WellFormed(1)
           /\ heap[TargetOf(1, v)].right = NULL
           /\ heap[TargetOf(1, v)].left # NULL) =>
              LET target   == TargetOf(1, v)
                  greatest == Max(Under(heap[target].left))
                  pred     == Holder(heap[target].left, greatest)
              IN  /\ m_root'[1] = m_root[1]
                  /\ target \in Reach(heap', m_root'[1]) \cap live'
                  /\ heap'[target].right = NULL
                  /\ heap'[target].data = greatest
                  /\ pred \notin live'
                  /\ Unlinked(1, pred)
                  /\ \A p \in Reach(heap, m_root[1]) :
                        /\ heap[p].left = pred => heap'[p].left = heap[pred].left
                        /\ heap[p].right = pred => heap'[p].right = heap[pred].left]_vars

\* the pointers of tree 1: its root pointer and both links of every node
\* that was allocated before the step, each with its value after the step
\* where that differs from its value before
ChangedPointers ==
    {<<"root", 0>> : x \in {1} \cap (IF m_root'[1] # m_root[1] THEN {1} ELSE {})}
    \cup {<<"left", n>> : n \in {m \in live : heap'[m].left # heap[m].left}}
    \cup {<<"right", n>> : n \in {m \in live : heap'[m].right # heap[m].right}}

\* C16: an insert that returns true allocates exactly one node, a leaf
\* holding the value and reachable from the root, and changes one pointer
\* (the root pointer or one link of one node, which now refers to the new
\* node; a pointer that already held the new node's address keeps it); the
\* data and the other links of the nodes allocated before are unchanged.
C16_InsertAddsOneLeaf ==
    [][\A v \in Values : \A n \in Node \cup {NULL} :
          (Insert(1, v, n) /\ Returned /\ ret' = "true") =>
              /\ Cardinality(live' \ live) = 1
              /\ live \subseteq live'
              /\ \A new \in live' \ live :
                    /\ heap'[new] = NewNode(v)
                    /\ new \in Reach(heap', m_root'[1])
                    /\ Cardinality(ChangedPointers) <= 1
                    /\ m_root'[1] # m_root[1] => m_root'[1] = new
                    /\ \A m \in live :
                          /\ heap'[m].data = heap[m].data
                          /\ heap'[m].left \in {heap[m].left, new}
                          /\ heap'[m].right \in {heap[m].right, new}]_vars

\* C17: in every reachable state the root pointer is null exactly when
\* m_size is 0 (so after the only value is removed the root is absent), and
\* no call has followed a reference to a released node.
C17_RootNullIffEmpty ==
    life[1] = "live" =>
        /\ (m_root[1] = NULL) <=> (m_size[1] = 0)
        /\ ~uaf

\* C18: the copy of a tree that is BST-ordered (all of its nodes allocated)
\* compares equal to the tree it was copied from under operator==, which is
\* to say it has the same shape with the same value at every position.
C18_CopyEqualsSource ==
    [][\A pol \in Policies :
          (CopyConstruct(2, 1, pol) /\ WellFormed(1) /\ Returned) =>
              /\ prefix_comp(heap', m_root'[2], m_root'[1], MaxNodes).res = "true"
              /\ prefix_comp(heap', m_root'[1], m_root'[2], MaxNodes).res = "true"
              /\ ShapeFrom(heap', m_root'[2], <<>>, MaxNodes + 1) =
                    ShapeFrom(heap, m_root[1], <<>>, MaxNodes + 1)]_vars

\* right after copy construction from a tree whose root has two children
C18_Witness ==
    /\ life = <<"live", "live">>
    /\ status = "running"
    /\ hist[2].origin = "copy"
    /\ ret = "void"
    /\ m_size[2] = 3
    /\ Height(heap, m_root[2]) = 2
    /\ Reach(heap, m_root[1]) \cap Reach(heap, m_root[2]) = {}
    /\ Shape(1) = Shape(2)

\* C19: a tree built by the bulk constructor from an array with repeated
\* values is BST-ordered with all nodes allocated, holds no value in two
\* nodes, contains exactly the distinct values of the array, and has as
\* many nodes, and as its size, the number of distinct values.
C19_BulkWithRepeats ==
    (life[1] = "live" /\ hist[1].kind = "bulk" /\ ~NoRepeats(hist[1].arr)) =>
        LET arr   == hist[1].arr
            nodes == Reach(heap, m_root[1])
        IN  /\ nodes \subseteq live
            /\ Ordered(heap, m_root[1])
            /\ \A a \in nodes : \A b \in nodes : heap[a].data = heap[b].data => a = b
            /\ \A v \in Values :
                  ContainsRes(heap, m_root[1], v) =
                      (IF v \in Elems(arr) THEN "true" ELSE "false")
            /\ Cardinality(nodes) = Cardinality(Elems(arr))
            /\ size(Mem(1)) = Cardinality(Elems(arr))
            /\ ~uaf /\ ~dfree

\* a live tree built from an array in which one value occurs three times
\* and another twice
C19_Witness ==
    /\ life[1] = "live"
    /\ status = "running"
    /\ hist[1].kind = "bulk"
    /\ hist[1].arr = <<2, 3, 2, 3, 2>>
    /\ m_size[1] = 2
    /\ Cardinality(Reach(heap, m_root[1])) = 2

====
